---- MODULE Spec2Model ----
(***************************************************************************)
(* Model of packages/nextjs/src/utils/withSentry.ts: the API-route handler *)
(* wrapper (withSentry), the wrapped res.end, finishSentryProcessing, the  *)
(* process-wide transaction stash and the page wrappers (withSentry_app,   *)
(* withSentryGSSP, withSentryGSP).                                         *)
(*                                                                         *)
(* Granularity: one action per event-loop turn of an async function (the   *)
(* code between two awaits).  Requests interleave at every await.          *)
(***************************************************************************)
EXTENDS Integers, Sequences, FiniteSets, TLC

\* ---------------------------------------------------------------- bounds
NumReqs == 2     \* API requests handled concurrently
MaxDepth == 2    \* withSentry layers around the handler of request 1
MaxEnd == 2      \* res.end() invocations, over all responses
NumPages == 2    \* page requests handled concurrently
MaxRenders == 2  \* renders of _app per page request
MaxSegs == 2     \* segments of a route template
MaxWord == 2     \* characters of a path segment, a parameter name or value

\* ------------------------------------------------------ program constants
StatusError == 500

Reqs == 1..NumReqs
Layers == 1..MaxDepth
EndCalls == 1..MaxEnd

GlobalDomain == <<0, 0>>
DomainIds == {GlobalDomain} \cup (Reqs \X Layers)

\* Object identities.  A transaction is named after the wrapper activation
\* that created it, a thrown object after the place that allocated it.
NoTxn == <<"none", 0, 0>>
ApiTxn(r, l) == <<"api", r, l>>
Pages == 1..NumPages
PageTxn(p, n) == <<"page", p, n>>
SpanObj(p, n) == <<"span", p, n>>
TxnIds == {ApiTxn(r, l) : r \in Reqs, l \in Layers}
              \cup {PageTxn(p, n) : p \in Pages, n \in 1..(MaxRenders + 1)}
SpanObjs == {SpanObj(p, n) : p \in Pages, n \in 1..(MaxRenders + 1)}
NoSpan == <<"none", 0, 1>>

\* Span ids (the keys of the stash).  Every transaction and every child span
\* has its own id; EmptyId is the '' that getTransactionById defaults to.
EmptyId == <<"", 0, 0>>
\* The span id of a transaction that was never stashed in this process.
ForeignId == <<"foreign", 0, 0>>
Ids == TxnIds \cup SpanObjs \cup {EmptyId, ForeignId}

ErrorObj(r) == <<r, 0>>         \* the Error object thrown by r's handler
WrapperObj(r, l) == <<r, l>>    \* the wrapper objectify allocates in layer l
ObjIds == Reqs \X (0..MaxDepth)

NoVal == [kind |-> "none", ref |-> <<0, 0>>]
PrimVal == [kind |-> "prim", ref |-> <<0, 0>>]
ObjVal(o) == [kind |-> "obj", ref |-> o]

VARIABLES
    tracingEnabled,  \* hasTracingEnabled()
    buildMode,       \* isBuild()
    scopeAvailable,  \* whether getCurrentHub().getScope() yields a scope
    depth,           \* depth[r]: number of nested withSentry layers of request r
    layer,           \* layer[r][l]: the async closure of withSentry (lines 52-153)
    res,             \* res[r]: the response object
    ends,            \* ends[k]: the k-th invocation of a wrapped res.end
    txns,            \* heap of Transaction objects
    scopes,          \* scopes[d]: scope of the hub of domain d
    objs,            \* heap of thrown objects (the __sentry_captured__ flag)
    events,          \* events handed to the client by captureException
    flushAttempts,   \* flushAttempts[r]: calls of flush(2000) made for r
    flushRejected,   \* flushRejected[r]: some flush made for r has rejected
    pg,              \* pg[p]: a page request: its data-loading and render phases
    spans,           \* heap of child spans
    stashDefined,    \* whether global.__sentryTransactions__ is set
    stash,           \* global.__sentryTransactions__: span id -> Transaction
    nm,              \* the incoming request (method, url, query) and the name
                     \* withSentry derives from it
    handlerSpans     \* whether the user handlers open a child span of the
                     \* active transaction around their res.end() call and
                     \* finish it in the statement after the call

apiVars == <<tracingEnabled, buildMode, scopeAvailable, depth, nm, handlerSpans, layer, res, ends,
             scopes, objs, events, flushAttempts, flushRejected>>

pageVars == <<pg, spans, stashDefined, stash>>

vars == <<apiVars, txns, pageVars>>

\* ------------------------------------------------- the transaction name
\* Strings are sequences of characters.
Chars == {"a", "b"}
Words == UNION {[1..n -> Chars] : n \in 1..MaxWord}

\* A route template is a sequence of segments: a static segment with its
\* text, or a dynamic segment with its parameter name.
Segs == [dyn : BOOLEAN, text : Words]
Templates ==
    {t \in UNION {[1..n -> Segs] : n \in 1..MaxSegs} :
        \A i, j \in DOMAIN t : (t[i].dyn /\ t[j].dyn /\ t[i].text = t[j].text) => i = j}

\* req.method as the framework hands it over ("": undefined).
Methods == {"", "get", "GET", "post"}

\* String.prototype.toUpperCase on the method names.
toUpperCase(m) ==
    CASE m = "get" -> "GET"
      [] m = "post" -> "POST"
      [] OTHER -> m

\* line 80: (req.method || 'GET').toUpperCase()
reqMethod(m) == toUpperCase(IF m = "" THEN "GET" ELSE m)

\* The request path the framework matched against template t with values v
\* (v[i]: the text of segment i in the URL).
RECURSIVE PathOf(_, _)
PathOf(t, v) ==
    IF Len(t) = 0 THEN <<>>
    ELSE <<"/">> \o v[1] \o PathOf(Tail(t), Tail(v))

\* The template written as a path: /users/[id].
RECURSIVE TemplatePath(_)
TemplatePath(t) ==
    IF Len(t) = 0 THEN <<>>
    ELSE <<"/">> \o (IF t[1].dyn THEN <<"[">> \o t[1].text \o <<"]">> ELSE t[1].text)
                 \o TemplatePath(Tail(t))

\* req.query: one entry per dynamic segment, in template order.
RECURSIVE QueryOf(_, _)
QueryOf(t, v) ==
    IF Len(t) = 0 THEN <<>>
    ELSE (IF t[1].dyn THEN <<[key |-> t[1].text, value |-> v[1]]>> ELSE <<>>)
             \o QueryOf(Tail(t), Tail(v))

\* stripUrlQueryAndFragment (line 71): the url up to the first '?' or '#'.
stripUrlQueryAndFragment(url) ==
    LET cut == {i \in 1..Len(url) : url[i] \in {"?", "#"}} IN
    IF cut = {} THEN url
    ELSE SubSeq(url, 1, (CHOOSE i \in cut : \A j \in cut : i <= j) - 1)

\* String.prototype.replace with a string pattern: the first occurrence of
\* pat in str is replaced, a string without the pattern is returned as it is.
replace(str, pat, by) ==
    LET at == {i \in 1..(Len(str) + 1) :
                  /\ i + Len(pat) - 1 <= Len(str)
                  /\ SubSeq(str, i, i + Len(pat) - 1) = pat} IN
    IF at = {} THEN str
    ELSE LET i == CHOOSE x \in at : \A y \in at : x <= y IN
         SubSeq(str, 1, i - 1) \o by \o SubSeq(str, i + Len(pat), Len(str))

\* lines 73-79: the loop over Object.entries(req.query).
RECURSIVE replaceParams(_, _)
replaceParams(reqPath, entries) ==
    IF Len(entries) = 0 THEN reqPath
    ELSE replaceParams(replace(reqPath, entries[1].value,
                               <<"[">> \o entries[1].key \o <<"]">>),
                       Tail(entries))

\* lines 69-84: the name given to startTransaction.
transactionName(method, url, query) ==
    <<reqMethod(method), " ">> \o replaceParams(stripUrlQueryAndFragment(url), query)

\* A request for template t with segment texts v, with or without a query
\* string.
Request(method, t, v, withQuery) ==
    [pc |-> "received", method |-> method, template |-> t,
     url |-> PathOf(t, v) \o (IF withQuery THEN <<"?", "x", "=", "1">> ELSE <<>>),
     query |-> QueryOf(t, v), name |-> <<>>]

\* GET /a/b for the template /a/[a], with a query string.
SampleRequest ==
    Request("get", <<[dyn |-> FALSE, text |-> <<"a">>], [dyn |-> TRUE, text |-> <<"a">>]>>,
            <<(<<"a">>), (<<"b">>)>>, TRUE)

\* ------------------------------------------------------------ sentry SDK
\* Transaction.finish(): the first call sets the end timestamp, later calls
\* leave it alone.
TransactionFinish(t) ==
    IF t.finished
    THEN t
    ELSE [t EXCEPT !.finished = TRUE, !.endStamps = @ + 1]

DeadTxn ==
    [live |-> FALSE, spanId |-> EmptyId, req |-> 0, op |-> "", name |-> <<>>,
     status |-> 0, finished |-> FALSE, endStamps |-> 0, children |-> 0, cut |-> FALSE]

\* startTransaction(): a new, unfinished Transaction object with its own
\* span id, created while handling API request r (0: a page request).
\* children counts the child spans the user handler has finished, cut tells
\* whether one of them was still open when the transaction was finished in
\* the same turn.
NewTransaction(id, r, op, name) ==
    [live |-> TRUE, spanId |-> id, req |-> r, op |-> op, name |-> name,
     status |-> 0, finished |-> FALSE, endStamps |-> 0, children |-> 0, cut |-> FALSE]

DeadSpan == [live |-> FALSE, spanId |-> EmptyId, parent |-> NoTxn, op |-> "",
             finished |-> FALSE]

\* transaction.startChild({ op }): a new, unfinished child span.
startChild(id, t, op) ==
    [live |-> TRUE, spanId |-> id, parent |-> t, op |-> op, finished |-> FALSE]

\* getCurrentHub().getScope() inside domain d: the hub of the active domain,
\* created on first use with a clone of the global hub's scope.
ScopeOf(d) ==
    IF scopes[d].live THEN scopes[d] ELSE [scopes[GlobalDomain] EXCEPT !.live = TRUE]

\* objectify(e): a primitive is boxed in a new wrapper object, an object is
\* returned as it is.  Yields the reference.
objectify(e, r, l) ==
    IF e.kind = "prim" THEN WrapperObj(r, l) ELSE e.ref

\* captureException(): core's checkOrSetAlreadyCaught drops an exception
\* object that already carries the captured flag.
AlreadyCaught(ref) == objs[ref].captured

\* ------------------------------------------------------------ withSentry
\* Fault: the closure is called without being bound to a domain.
UnboundDomain(r, l) == GlobalDomain

\* local.bind (line 52): the closure runs inside the request's own domain.
boundHandler(r, l) == <<r, l>>

\* Fault: the link to the transaction is kept in one place for all requests.
StoredOnShared(r) == 1

\* line 96: the response the link to the transaction is saved on, the `res`
\* of this invocation.
storedOn(r) == r

\* line 58: the only condition on starting a transaction.
startsTransaction(hasScope) == hasScope /\ tracingEnabled

\* Fault: the status is left for the framework to set after the rethrow.
StatusUnchanged(old) == old

\* line 139: the status the catch block stores before finalization.
errorStatus(old) == StatusError

\* Fault: `throw e`, the value as it was caught.
RethrowCaught(e, objectifiedErr) == e

\* line 151: the value the catch block throws.
rethrown(e, objectifiedErr) == ObjVal(objectifiedErr)

\* line 146: await finishSentryProcessing(res) before the throw.
catchAwaited(f) == f.pc = "done"

\* Fault: finishSentryProcessing(this) is called but not awaited.
EndNotAwaited(f) == TRUE

\* line 179: await finishSentryProcessing(this) before origEnd.
endAwaited(f) == f.pc = "done"

\* ------------------------------------------------- finishSentryProcessing
\* The error a rejected flush carries.
FlushError == [kind |-> "flush", ref |-> <<0, 0>>]

\* Fault: no try/catch around `await flush(2000)`: a rejection escapes and
\* the promise of finishSentryProcessing rejects.
FlushErrorEscapes(rejected) == IF rejected THEN "failed" ELSE "done"

\* lines 209-215: where finishSentryProcessing stands once flush has
\* settled; the catch block swallows a rejection, so it returns normally.
afterFlush(rejected) == "done"

\* An activation of finishSentryProcessing: pc is its position, txn the
\* transaction it read from the response (line 191).
IdleFin == [pc |-> "idle", txn |-> NoTxn]

\* Up to the first await (lines 190-204, or 190-211 when no transaction is
\* stored on the response).
FinStart(resNow) ==
    [pc |-> IF resNow.txn # NoTxn THEN "immediate" ELSE "flushing",
     txn |-> resNow.txn]

\* Fault: transaction.finish() is called directly, not from setImmediate.
FinishAtOnce(t, statusCode) == TransactionFinish([t EXCEPT !.status = statusCode])

\* lines 194-204: what the call of finishSentryProcessing does to the
\* transaction in the turn of the call: the status is recorded, the finish
\* is only scheduled.
finRequested(t, statusCode) == [t EXCEPT !.status = statusCode]

\* The heap of transactions after the start of finishSentryProcessing.
FinStartTxns(resNow) ==
    IF resNow.txn # NoTxn
    THEN [txns EXCEPT ![resNow.txn] = finRequested(@, resNow.statusCode)]
    ELSE txns

\* Fault: without a transaction finishSentryProcessing returns at once.
FinSkipsFlush(r, resNow) ==
    UNCHANGED <<flushAttempts, flushRejected>>

\* When no transaction is stored, the call of flush(2000) at line 211, which
\* is outside the `if (transaction)`, is made in the turn of the call.
FinStartFlush(r, resNow) ==
    /\ flushAttempts' = IF resNow.txn # NoTxn
                        THEN flushAttempts
                        ELSE [flushAttempts EXCEPT ![r] = @ + 1]
    /\ UNCHANGED flushRejected

\* The user handler's `span.finish()` in the statement after its res.end()
\* call: before and after are its transaction before the call and after it.
handlerSpanFinish(before, after) ==
    [after EXCEPT !.children = @ + 1,
                  !.cut = @ \/ (after.finished /\ ~before.finished)]

\* ------------------------------------------------------------------ Init
\* No request has arrived yet.
Idle ==
    /\ pg = [p \in Pages |->
               [pc |-> "idle", kind |-> "none", isMap |-> FALSE, txn |-> NoTxn,
                span |-> NoSpan, propsId |-> EmptyId, made |-> 0, renders |-> 0,
                log |-> <<>>]]
    /\ spans = [x \in SpanObjs |-> DeadSpan]
    /\ stashDefined = FALSE
    /\ stash = [i \in Ids |-> NoTxn]
    /\ layer = [r \in Reqs |-> [l \in Layers |->
                  [pc |-> "idle", fin |-> IdleFin, caught |-> NoVal, thrown |-> NoVal]]]
    /\ res = [r \in Reqs |-> [statusCode |-> 200, txn |-> NoTxn, wraps |-> 0, closed |-> 0]]
    /\ ends = [k \in EndCalls |-> [req |-> 0, pc |-> "idle", level |-> 0, fin |-> IdleFin]]
    /\ txns = [t \in TxnIds |-> DeadTxn]
    /\ scopes = [d \in DomainIds |->
                   [live |-> d = GlobalDomain, procs |-> {}, tags |-> {}, span |-> NoTxn]]
    /\ objs = [o \in ObjIds |-> [live |-> FALSE, captured |-> FALSE]]
    /\ events = {}
    /\ flushAttempts = [r \in Reqs |-> 0]
    /\ flushRejected = [r \in Reqs |-> FALSE]

\* API routes: any configuration; request 1 may be wrapped more than once.
Init ==
    /\ tracingEnabled \in BOOLEAN
    /\ buildMode \in BOOLEAN
    /\ scopeAvailable \in BOOLEAN
    /\ depth \in {dp \in [Reqs -> Layers] : \A r \in Reqs : r > 1 => dp[r] = 1}
    /\ nm = SampleRequest
    /\ handlerSpans = FALSE
    /\ Idle

config == <<tracingEnabled, buildMode, scopeAvailable, depth, nm, handlerSpans>>

\* --------------------------------------------------------------- actions
\* The wrapped handler up to `await origHandler(req, res)` (lines 38-101).
\* Layer l > 1 is entered by layer l-1 calling it as its origHandler.  The
\* innermost layer calls the user handler, which tags the current scope
\* (Sentry.setTag) before its first await.
Enter(r, l) ==
    LET d == boundHandler(r, l)
        cur == ScopeOf(d)
        hasScope == scopeAvailable
        traced == startsTransaction(hasScope)
        t == ApiTxn(r, l)
    IN
    /\ l <= depth[r]
    /\ layer[r][l].pc = "idle"
    /\ l > 1 => layer[r][l - 1].pc = "awaiting"
    /\ res' = [res EXCEPT ![r].wraps = @ + 1,
                          ![storedOn(r)].txn = IF traced THEN t ELSE @]
    /\ txns' = IF traced
               THEN [txns EXCEPT ![t] = NewTransaction(t, r, "http.server",
                                transactionName(nm.method, nm.url, nm.query))]
               ELSE txns
    /\ scopes' = IF hasScope
                 THEN [scopes EXCEPT ![d] =
                         [cur EXCEPT !.procs = @ \cup {<<"requestData", r>>},
                                     !.span = IF traced THEN t ELSE @,
                                     !.tags = IF l = depth[r] THEN @ \cup {r} ELSE @]]
                 ELSE scopes
    /\ layer' = [layer EXCEPT ![r][l].pc = "awaiting"]
    /\ UNCHANGED <<config, pageVars, ends, objs, events, flushAttempts, flushRejected>>

UserRunning(r) == layer[r][depth[r]].pc = "awaiting"

\* `return handlerResult` (line 112).
Return(r, l) ==
    /\ l <= depth[r]
    /\ layer[r][l].pc = "awaiting"
    /\ l < depth[r] => layer[r][l + 1].pc = "returned"
    /\ layer' = [layer EXCEPT ![r][l].pc = "returned"]
    /\ UNCHANGED <<config, pageVars, res, ends, txns, scopes, objs, events, flushAttempts, flushRejected>>

\* The catch block up to `await finishSentryProcessing(res)` (lines 113-146),
\* with the synchronous start of finishSentryProcessing.
Catch(r, l, e) ==
    LET d == boundHandler(r, l)
        ref == objectify(e, r, l)
        sc == scopeAvailable
        withMech == [ScopeOf(d) EXCEPT !.procs = @ \cup {<<"mechanism", r>>}]
        report == sc /\ ~AlreadyCaught(ref)
        resNow == [res[r] EXCEPT !.statusCode = errorStatus(@)]
    IN
    /\ scopes' = IF sc THEN [scopes EXCEPT ![d] = withMech] ELSE scopes
    /\ events' = IF report
                 THEN events \cup {[req |-> r, layer |-> l, ref |-> ref,
                                    procs |-> withMech.procs, tags |-> withMech.tags]}
                 ELSE events
    /\ objs' = [objs EXCEPT ![ref] = [live |-> TRUE, captured |-> @.captured \/ report]]
    /\ res' = [res EXCEPT ![r] = resNow]
    /\ layer' = [layer EXCEPT ![r][l] =
                   [pc |-> "finalizing", fin |-> FinStart(resNow),
                    caught |-> e, thrown |-> ObjVal(ref)]]
    /\ txns' = FinStartTxns(resNow)
    /\ FinStartFlush(r, resNow)
    /\ UNCHANGED <<config, pageVars, ends>>

\* The user handler throws a primitive or a new Error object.
HandlerThrow(r) ==
    /\ UserRunning(r)
    /\ \E e \in {PrimVal, ObjVal(ErrorObj(r))} : Catch(r, depth[r], e)

\* An outer layer catches what the layer it wraps threw.
OuterCatch(r, l) ==
    /\ l < depth[r]
    /\ layer[r][l].pc = "awaiting"
    /\ layer[r][l + 1].pc = "rethrown"
    /\ Catch(r, l, layer[r][l + 1].thrown)

\* `throw objectifiedErr` (line 151), after the awaited finalization.  Were
\* the awaited promise rejected, the await at line 146 would throw its error
\* out of the catch block instead.
Rethrow(r, l) ==
    /\ layer[r][l].pc = "finalizing"
    /\ catchAwaited(layer[r][l].fin) \/ layer[r][l].fin.pc = "failed"
    /\ layer' = [layer EXCEPT ![r][l] =
                   [@ EXCEPT !.pc = "rethrown",
                             !.thrown = IF layer[r][l].fin.pc = "failed"
                                        THEN FlushError
                                        ELSE rethrown(layer[r][l].caught,
                                                      layer[r][l].thrown.ref)]]
    /\ UNCHANGED <<config, pageVars, res, ends, txns, scopes, objs, events, flushAttempts, flushRejected>>

\* The steps of finishSentryProcessing after its start, on an activation f
\* owned by request r.
\* The setImmediate callback (lines 199-202) and, in the same turn, the
\* continuation after `await transactionFinished` up to `await flush(2000)`
\* (lines 204-211).
FinImmediate(r, f) ==
    /\ f.pc = "immediate"
    /\ txns' = [txns EXCEPT ![f.txn] = TransactionFinish(@)]
    /\ flushAttempts' = [flushAttempts EXCEPT ![r] = @ + 1]
    /\ UNCHANGED flushRejected

\* flush settles, resolved (sent, or timed out) or rejected; the catch at
\* line 213 swallows the rejection.
FinSettle(r, f, rejected) ==
    /\ f.pc = "flushing"
    /\ flushRejected' = [flushRejected EXCEPT ![r] = @ \/ rejected]
    /\ UNCHANGED <<txns, flushAttempts>>

CatchFinImmediate(r, l) ==
    /\ FinImmediate(r, layer[r][l].fin)
    /\ layer' = [layer EXCEPT ![r][l].fin.pc = "flushing"]
    /\ UNCHANGED <<config, pageVars, res, ends, scopes, objs, events>>

CatchFinSettle(r, l) ==
    /\ \E rejected \in BOOLEAN :
         /\ FinSettle(r, layer[r][l].fin, rejected)
         /\ layer' = [layer EXCEPT ![r][l].fin.pc = afterFlush(rejected)]
    /\ UNCHANGED <<config, pageVars, res, ends, scopes, objs, events>>

EndFinImmediate(k) ==
    /\ ends[k].req # 0
    /\ FinImmediate(ends[k].req, ends[k].fin)
    /\ ends' = [ends EXCEPT ![k].fin.pc = "flushing"]
    /\ UNCHANGED <<config, pageVars, layer, res, scopes, objs, events>>

EndFinSettle(k) ==
    /\ ends[k].req # 0
    /\ \E rejected \in BOOLEAN :
         /\ FinSettle(ends[k].req, ends[k].fin, rejected)
         /\ ends' = [ends EXCEPT ![k].fin.pc = afterFlush(rejected)]
    /\ UNCHANGED <<config, pageVars, layer, res, scopes, objs, events>>

\* res.end() is invoked (by the handler or by the framework): newEnd runs
\* up to `await finishSentryProcessing(this)` (lines 178-179).  res.end is
\* the wrapper installed last; it wraps the one installed before it.  A user
\* handler that calls it inside a child span finishes the span in the same
\* turn, after the call has returned its promise.
newEnd(r, k) ==
    LET t == res[r].txn
        due == handlerSpans /\ UserRunning(r) /\ t # NoTxn
        started == FinStartTxns(res[r])
    IN
    /\ layer[r][depth[r]].pc # "idle"
    /\ ends[k].pc = "idle"
    /\ k > 1 => ends[k - 1].pc # "idle"
    /\ ends' = [ends EXCEPT ![k] = [req |-> r, pc |-> "finalizing",
                                    level |-> res[r].wraps, fin |-> FinStart(res[r])]]
    /\ txns' = IF due
               THEN [started EXCEPT ![t] = handlerSpanFinish(txns[t], @)]
               ELSE started
    /\ FinStartFlush(r, res[r])
    /\ UNCHANGED <<config, pageVars, layer, res, scopes, objs, events>>

\* `origEnd.call(this)` where origEnd is itself a wrapped end (nested layers).
EndInner(k) ==
    LET r == ends[k].req IN
    /\ ends[k].pc = "finalizing"
    /\ ends[k].level > 1
    /\ endAwaited(ends[k].fin)
    /\ ends' = [ends EXCEPT ![k].level = @ - 1, ![k].fin = FinStart(res[r])]
    /\ txns' = FinStartTxns(res[r])
    /\ FinStartFlush(r, res[r])
    /\ UNCHANGED <<config, pageVars, layer, res, scopes, objs, events>>

\* `origEnd.call(this)` reaching the response's original end (line 181).
origEnd(k) ==
    LET r == ends[k].req IN
    /\ ends[k].pc = "finalizing"
    /\ ends[k].level = 1
    /\ endAwaited(ends[k].fin)
    /\ ends' = [ends EXCEPT ![k].pc = "closed"]
    /\ res' = [res EXCEPT ![r].closed = @ + 1]
    /\ UNCHANGED <<config, pageVars, layer, txns, scopes, objs, events, flushAttempts, flushRejected>>

ApiNext ==
    \/ \E r \in Reqs, l \in Layers : Enter(r, l)
    \/ \E r \in Reqs, l \in Layers : Return(r, l)
    \/ \E r \in Reqs : HandlerThrow(r)
    \/ \E r \in Reqs, l \in Layers : OuterCatch(r, l)
    \/ \E r \in Reqs, l \in Layers : Rethrow(r, l)
    \/ \E r \in Reqs, l \in Layers : CatchFinImmediate(r, l)
    \/ \E r \in Reqs, l \in Layers : CatchFinSettle(r, l)
    \/ \E k \in EndCalls : EndFinImmediate(k)
    \/ \E k \in EndCalls : EndFinSettle(k)
    \/ \E r \in Reqs, k \in EndCalls : newEnd(r, k)
    \/ \E k \in EndCalls : EndInner(k)
    \/ \E k \in EndCalls : origEnd(k)

Next == ApiNext

Spec == Init /\ [][Next]_vars

\* Scheduling.  The event loop runs every setImmediate callback and resumes
\* every function whose awaited promise has settled; flush(2000) settles, at
\* the latest when its timeout expires.  Nothing obliges a handler to throw
\* or anybody to call res.end().
Fairness ==
    /\ \A r \in Reqs, l \in Layers :
         /\ WF_vars(CatchFinImmediate(r, l))
         /\ WF_vars(CatchFinSettle(r, l))
         /\ WF_vars(Rethrow(r, l))
         /\ WF_vars(OuterCatch(r, l))
    /\ \A k \in EndCalls :
         /\ WF_vars(EndFinImmediate(k))
         /\ WF_vars(EndFinSettle(k))
         /\ WF_vars(EndInner(k) \/ origEnd(k))

\* API routes with tracing on and a current scope, under fair scheduling.
LiveInit ==
    /\ tracingEnabled = TRUE
    /\ buildMode = FALSE
    /\ scopeAvailable = TRUE
    /\ depth \in {dp \in [Reqs -> Layers] : \A r \in Reqs : r > 1 => dp[r] = 1}
    /\ nm = SampleRequest
    /\ handlerSpans = FALSE
    /\ Idle

LiveSpec == LiveInit /\ [][Next]_vars /\ Fairness

\* API routes with tracing on whose handlers use child spans.
SpanInit ==
    /\ tracingEnabled = TRUE
    /\ buildMode = FALSE
    /\ scopeAvailable \in BOOLEAN
    /\ depth \in {dp \in [Reqs -> Layers] : \A r \in Reqs : r > 1 => dp[r] = 1}
    /\ nm = SampleRequest
    /\ handlerSpans = TRUE
    /\ Idle

SpanSpec == SpanInit /\ [][Next]_vars

\* ------------------------------------------------------- the stash (220-235)
getTransactionById(transactionId) ==
    IF stashDefined THEN stash[transactionId] ELSE NoTxn

\* The key under which stashTransaction files a transaction (line 234).
stashKey(t) == t.spanId

\* Fault: deleteTransaction is called with a key that is not stashed.
DeleteNothing(t) == EmptyId

\* The key deleteTransaction is called with in withSentry_app (line 281).
deletedKey(t) == t.spanId

\* Fault: the id of the wrapper's child span is injected.
InjectSpanId(t, sp) == sp.spanId

\* The id the data-loading wrappers put into props (lines 361 and 393).
injectedId(t, sp) == t.spanId

\* ------------------------------------------------------- page wrappers
\* Fault: the '.map' test is missing.
GSSPIgnoresMap(isMap) == tracingEnabled /\ ~buildMode

\* line 351: when wrappedGSSP traces.
gsspTraces(isMap) == tracingEnabled /\ ~buildMode /\ ~isMap

\* line 382: when wrappedGSP traces; the request path is not consulted.
gspTraces(isMap) == tracingEnabled /\ ~buildMode

\* line 256: when wrappedUnderscoreApp traces.
appTraces == tracingEnabled /\ ~buildMode

Route(p) == <<"route", p>>

\* Fault: the resumed transaction keeps the name it was created with.
KeepName(t, name) == t

\* activeTransaction.setName(contextData.router.route, 'route') (line 271).
setName(t, name) == [t EXCEPT !.name = name]

\* startOrGetPageRouteTransaction(route, transactionId) (lines 314-326):
\* yields <<transaction, whether it was created>>.
startOrGetPageRouteTransaction(p, transactionId) ==
    LET found == getTransactionById(transactionId) IN
    IF found # NoTxn THEN <<found, FALSE>> ELSE <<PageTxn(p, 1), TRUE>>

\* wrappedGSSP up to `await gSSP(context)` (lines 343-357).  isMap: the
\* resolved URL ends with '.map'.
wrappedGSSP(p) ==
    \E isMap \in BOOLEAN :
        LET got == startOrGetPageRouteTransaction(p, EmptyId)
            t == got[1]
            obj == IF got[2]
                   THEN NewTransaction(t, 0, "http.server", Route(p))
                   ELSE txns[t]
            sp == SpanObj(p, 1)
        IN
        /\ pg[p].pc = "idle"
        /\ IF gsspTraces(isMap)
           THEN /\ txns' = [txns EXCEPT ![t] = obj]
                /\ stashDefined' = TRUE
                /\ stash' = [stash EXCEPT ![stashKey(obj)] = t]
                /\ spans' = [spans EXCEPT ![sp] = startChild(sp, t, "getServerSideProps")]
                /\ pg' = [pg EXCEPT ![p] =
                            [@ EXCEPT !.pc = "loading", !.kind = "gssp", !.isMap = isMap,
                                      !.txn = t, !.span = sp,
                                      !.made = IF got[2] THEN 1 ELSE 0]]
           ELSE /\ pg' = [pg EXCEPT ![p] =
                            [@ EXCEPT !.pc = "loading", !.kind = "gssp", !.isMap = isMap]]
                /\ UNCHANGED <<txns, stashDefined, stash, spans>>
        /\ UNCHANGED apiVars

\* wrappedGSP up to `await gSP(context)` (lines 379-392).  isMap: the
\* requested path is an asset map file; the code does not look at it.
wrappedGSP(p) ==
    \E isMap \in BOOLEAN :
        LET t == PageTxn(p, 1)
            obj == NewTransaction(t, 0, "http.server", <<"unknown transaction">>)
            sp == SpanObj(p, 1)
        IN
        /\ pg[p].pc = "idle"
        /\ IF gspTraces(isMap)
           THEN /\ txns' = [txns EXCEPT ![t] = obj]
                /\ stashDefined' = TRUE
                /\ stash' = [stash EXCEPT ![stashKey(obj)] = t]
                /\ spans' = [spans EXCEPT ![sp] = startChild(sp, t, "getStaticProps")]
                /\ pg' = [pg EXCEPT ![p] =
                            [@ EXCEPT !.pc = "loading", !.kind = "gsp", !.isMap = isMap,
                                      !.txn = t, !.span = sp, !.made = 1]]
           ELSE /\ pg' = [pg EXCEPT ![p] =
                            [@ EXCEPT !.pc = "loading", !.kind = "gsp", !.isMap = isMap]]
                /\ UNCHANGED <<txns, stashDefined, stash, spans>>
        /\ UNCHANGED apiVars

\* The wrapped data-loading function resolves: the span is finished and the
\* id injected (lines 359-366, 393-397).
DataLoadResolve(p) ==
    /\ pg[p].pc = "loading"
    /\ IF pg[p].txn # NoTxn
       THEN /\ spans' = [spans EXCEPT ![pg[p].span].finished = TRUE]
            /\ pg' = [pg EXCEPT ![p] =
                        [@ EXCEPT !.pc = "loaded",
                                  !.propsId = injectedId(txns[pg[p].txn], spans[pg[p].span])]]
       ELSE /\ pg' = [pg EXCEPT ![p].pc = "loaded"]
            /\ UNCHANGED spans
    /\ UNCHANGED <<apiVars, txns, stashDefined, stash>>

\* The wrapped data-loading function rejects: the await throws and the
\* wrapper rejects with nothing after it run.
DataLoadReject(p) ==
    /\ pg[p].pc = "loading"
    /\ pg' = [pg EXCEPT ![p].pc = "failed"]
    /\ UNCHANGED <<apiVars, txns, spans, stashDefined, stash>>

\* Fault: no `if (!activeTransaction)` branch, the lookup result is used
\* as it is.
NoFallback(found, fresh) == found

\* lines 257-265: the transaction wrappedUnderscoreApp works on, the one
\* found in the stash or else the one it starts.
activeTransaction(found, fresh) == IF found # NoTxn THEN found ELSE fresh

\* pageProps.__sentry_transaction_id__ as a render of page p receives it:
\* what the page's data loading injected (nothing when it was not traced);
\* a page without data loading has no such field, or one that was written
\* in another process.  A repeated render is given the same props.
PropsIds(p) ==
    IF pg[p].kind # "none" THEN {pg[p].propsId}
    ELSE IF pg[p].log # <<>> THEN {pg[p].log[1].idIn}
    ELSE {EmptyId, ForeignId}

\* wrappedUnderscoreApp, a synchronous function (lines 253-289), called with
\* the props of the page's data loading.  throws: the component throws.  The
\* renderer may call it again with the same props, whether the component
\* returned or threw.
wrappedUnderscoreApp(p, throws) ==
    \E id \in PropsIds(p) :
    LET found == getTransactionById(id)
        fresh == PageTxn(p, pg[p].made + 1)
        active == activeTransaction(found, fresh)
        t0 == IF found # NoTxn
              THEN txns[active]
              ELSE NewTransaction(fresh, 0, "", Route(p))
        t1 == setName(t0, Route(p))
        t2 == IF throws THEN t1 ELSE TransactionFinish(t1)
        sp == SpanObj(p, pg[p].renders + 2)
        st1 == IF found # NoTxn THEN stash ELSE [stash EXCEPT ![stashKey(t0)] = active]
        st2 == IF throws THEN st1 ELSE [st1 EXCEPT ![deletedKey(t1)] = NoTxn]
    IN
    /\ pg[p].pc \in {"idle", "loaded", "rendered", "renderFailed"}
    /\ pg[p].renders < MaxRenders
    /\ IF appTraces
       THEN /\ txns' = [txns EXCEPT ![active] = t2]
            /\ spans' = [spans EXCEPT ![sp] =
                           [startChild(sp, active, "_app wrapper") EXCEPT
                               !.finished = ~throws]]
            /\ stashDefined' = (stashDefined \/ found = NoTxn)
            /\ stash' = st2
            /\ pg' = [pg EXCEPT ![p] =
                        [@ EXCEPT !.pc = IF throws THEN "renderFailed" ELSE "rendered",
                                  !.renders = @ + 1,
                                  !.made = IF found # NoTxn THEN @ ELSE @ + 1,
                                  !.log = Append(@, [idIn |-> id, active |-> active,
                                                     created |-> found = NoTxn,
                                                     threw |-> throws])]]
       ELSE /\ pg' = [pg EXCEPT ![p] =
                        [@ EXCEPT !.pc = IF throws THEN "renderFailed" ELSE "rendered",
                                  !.renders = @ + 1]]
            /\ UNCHANGED <<txns, spans, stashDefined, stash>>
    /\ UNCHANGED apiVars

PageNext ==
    \/ \E p \in Pages : wrappedGSSP(p)
    \/ \E p \in Pages : wrappedGSP(p)
    \/ \E p \in Pages : DataLoadResolve(p)
    \/ \E p \in Pages : DataLoadReject(p)
    \/ \E p \in Pages, throws \in BOOLEAN : wrappedUnderscoreApp(p, throws)

\* Page requests: any tracing configuration.
PageInit ==
    /\ tracingEnabled \in BOOLEAN
    /\ buildMode \in BOOLEAN
    /\ scopeAvailable = TRUE
    /\ depth = [r \in Reqs |-> 1]
    /\ nm = SampleRequest
    /\ handlerSpans = FALSE
    /\ Idle

PageSpec == PageInit /\ [][PageNext]_vars

\* ------------------------------------------------------ name derivation
\* withSentry derives the transaction name of the request (lines 69-84).
DeriveName ==
    /\ nm.pc = "received"
    /\ nm' = [nm EXCEPT !.pc = "named",
                        !.name = transactionName(nm.method, nm.url, nm.query)]
    /\ UNCHANGED <<tracingEnabled, buildMode, scopeAvailable, depth, handlerSpans, layer,
                   res, ends, scopes, objs, events, flushAttempts, flushRejected, txns,
                   pageVars>>

\* Any method, any route template and any values of its dynamic segments
\* (a static segment appears in the URL as its own text).
NameInit ==
    /\ tracingEnabled = TRUE
    /\ buildMode = FALSE
    /\ scopeAvailable = TRUE
    /\ depth = [r \in Reqs |-> 1]
    /\ \E m \in Methods, t \in Templates, withQuery \in BOOLEAN :
         \E v \in [DOMAIN t -> Words] :
            /\ \A i \in DOMAIN t : ~t[i].dyn => v[i] = t[i].text
            /\ nm = Request(m, t, v, withQuery)
    /\ handlerSpans = FALSE
    /\ Idle

NameNext == DeriveName

NameSpec == NameInit /\ [][NameNext]_vars

\* ----------------------------------------------------------------- claims
\* C1: whenever a wrapped res.end has invoked the original end, the
\* finalization it awaited has completed: its flush has settled and the
\* transaction stored on the response, if any, is finished.
C1_CloseAfterFinalization ==
    \A k \in EndCalls :
        ends[k].pc = "closed" =>
            /\ ends[k].fin.pc = "done"
            /\ res[ends[k].req].txn # NoTxn => txns[res[ends[k].req].txn].finished

\* A traced response is closed while another request is being finalized.
C1_Witness ==
    \E k \in EndCalls, q \in Reqs :
        /\ ends[k].pc = "closed"
        /\ ends[k].req # q
        /\ res[ends[k].req].txn # NoTxn
        /\ layer[q][1].pc = "finalizing"

\* C2: the scope used while handling a request, and every event emitted
\* while handling it, carries only event processors and tags written for
\* that request, and its active span is a transaction of that request.
C2_ScopeIsolation ==
    /\ \A r \in Reqs, l \in Layers :
         LET s == scopes[boundHandler(r, l)] IN
         layer[r][l].pc # "idle" =>
             /\ \A p \in s.procs : p[2] = r
             /\ s.tags \subseteq {r}
             /\ s.span # NoTxn => txns[s.span].req = r
    /\ \A e \in events :
         /\ \A p \in e.procs : p[2] = e.req
         /\ e.tags \subseteq {e.req}

\* An event is emitted for one request while the handler of another request,
\* which has tagged its scope, is still running.
C2_Witness ==
    \E e \in events, q \in Reqs :
        /\ e.req # q
        /\ UserRunning(q)
        /\ q \in scopes[boundHandler(q, depth[q])].tags
        /\ e.procs # {}

\* C3: over the finalizations of one response its transaction gets one end
\* timestamp and one flush attempt is made.
C3_FinishIdempotent ==
    \A r \in Reqs :
        res[r].txn # NoTxn =>
            /\ txns[res[r].txn].endStamps <= 1
            /\ flushAttempts[r] <= 1

\* C4: once a layer has caught an error the response status is 500 (and it
\* is the status recorded on the transaction being finalized); the layer has
\* rethrown only after its finalization completed (transaction finished,
\* flush settled); and a layer that caught an error never returns normally:
\* it rethrows the error in object form.
C4_ErrorPath ==
    \A r \in Reqs, l \in Layers :
        LET L == layer[r][l] IN
        /\ L.pc \in {"finalizing", "rethrown"} =>
             /\ res[r].statusCode = StatusError
             /\ L.fin.txn # NoTxn => txns[L.fin.txn].status = StatusError
        /\ L.pc = "rethrown" =>
             /\ L.fin.pc = "done"
             /\ L.fin.txn # NoTxn => txns[L.fin.txn].finished
             /\ L.thrown.kind = "obj"
             /\ objs[L.thrown.ref].live
        /\ L.caught # NoVal => L.pc \in {"finalizing", "rethrown"}
        /\ (l < depth[r] /\ layer[r][l + 1].pc = "rethrown") => L.pc # "returned"

\* A layer with a scope and a transaction has rethrown.
C4_Witness ==
    \E r \in Reqs, l \in Layers :
        /\ layer[r][l].pc = "rethrown"
        /\ scopeAvailable
        /\ layer[r][l].fin.txn # NoTxn

\* The events reported while handling request r.
Reports(r) == {e \in events : e.req = r}

\* C5: an error thrown while handling a request is never reported twice,
\* and it is reported once as soon as a layer with a current scope (line
\* 120) has caught it, however many layers catch it afterwards.
C5_ReportedOnce ==
    \A r \in Reqs :
        /\ Cardinality(Reports(r)) <= 1
        /\ (scopeAvailable /\ layer[r][depth[r]].caught # NoVal) =>
               Cardinality(Reports(r)) = 1

\* A thrown primitive was caught by two layers in sequence, and the outer
\* layer has rethrown it.
C5_Witness ==
    \E r \in Reqs :
        /\ depth[r] = 2
        /\ scopeAvailable
        /\ layer[r][2].caught = PrimVal
        /\ layer[r][1].pc = "rethrown"

\* C6: a transaction of the handler wrapper exists only if tracing is
\* enabled and the process is not in build mode.
C6_NoTransactionInBuildMode ==
    \A r \in Reqs, l \in Layers :
        txns[ApiTxn(r, l)].live => (tracingEnabled /\ ~buildMode)

\* The data-loading wrapper of page p created no transaction, opened no
\* span, stashed nothing and injected no id.
DataLoadUntouched(p) ==
    /\ pg[p].txn = NoTxn
    /\ pg[p].made = 0
    /\ ~txns[PageTxn(p, 1)].live
    /\ ~spans[SpanObj(p, 1)].live
    /\ \A i \in Ids : stash[i] # PageTxn(p, 1)
    /\ pg[p].propsId = EmptyId

\* The data-loading wrapper of page p was called and no render has run.
InDataLoad(p) == pg[p].pc \in {"loading", "loaded", "failed"}

\* C7 (as stated): for both data-loading wrappers, with tracing disabled,
\* build mode set or an asset-map path, the wrapper creates no transaction,
\* opens no span, stashes nothing and injects no id.
C7_BothSkipWhenExcluded ==
    \A p \in Pages :
        (InDataLoad(p) /\ (~tracingEnabled \/ buildMode \/ pg[p].isMap)) =>
            DataLoadUntouched(p)

\* C7 (amended): the same, where the asset-map exclusion applies to
\* withSentryGSSP only.
C7_SkipWhenNotTraced ==
    \A p \in Pages :
        (InDataLoad(p) /\ (\/ ~tracingEnabled
                           \/ buildMode
                           \/ (pg[p].kind = "gssp" /\ pg[p].isMap))) =>
            DataLoadUntouched(p)

\* wrappedGSSP has returned for an asset-map path with tracing on, while
\* another page request holds a stashed transaction.
C7_Witness ==
    \E p, q \in Pages :
        /\ pg[p].pc = "loaded" /\ pg[p].kind = "gssp" /\ pg[p].isMap
        /\ tracingEnabled /\ ~buildMode
        /\ pg[q].txn # NoTxn

\* C8: the id a data-loading wrapper injected resolves, until a render has
\* consumed it, to the transaction that wrapper created, and the first
\* render given that id resumes that transaction and creates none.
C8_RoundTrip ==
    \A p \in Pages :
        pg[p].propsId # EmptyId =>
            /\ txns[pg[p].txn].spanId = pg[p].propsId
            /\ pg[p].renders = 0 =>
                 /\ getTransactionById(pg[p].propsId) = pg[p].txn
                 /\ ~txns[pg[p].txn].finished
            /\ pg[p].renders > 0 =>
                 /\ pg[p].log[1].active = pg[p].txn
                 /\ ~pg[p].log[1].created

\* A render has resumed the transaction of its page's data loading while
\* another page's transaction was stashed.
C8_Witness ==
    \E p, q \in Pages :
        /\ p # q
        /\ pg[p].renders > 0
        /\ pg[p].propsId # EmptyId
        /\ pg[p].log[1].active = pg[p].txn
        /\ pg[q].txn # NoTxn

\* C9: no finished transaction is resolvable in the stash.
C9_FinishedNotInStash ==
    /\ \A i \in Ids :
         getTransactionById(i) # NoTxn => ~txns[getTransactionById(i)].finished
    /\ \A t \in TxnIds :
         txns[t].finished => getTransactionById(txns[t].spanId) = NoTxn

\* A transaction was finished by a render while another one is stashed.
C9_Witness ==
    \E t, u \in TxnIds :
        /\ txns[t].finished
        /\ getTransactionById(txns[u].spanId) = u

\* Page request p is in flight: its data loading has started, no phase has
\* failed and no render has completed.
InFlight(p) == pg[p].pc \in {"loading", "loaded"}

\* C10: the stash holds at most one entry per page request in flight, so it
\* is empty once every started phase has completed.
C10_StashBounded ==
    Cardinality({i \in Ids : getTransactionById(i) # NoTxn})
        <= Cardinality({p \in Pages : InFlight(p)})

C12_NameIsTemplate ==
    nm.pc = "named" =>
        nm.name = <<reqMethod(nm.method), " ">> \o TemplatePath(nm.template)

\* res.end() has been called on the response of request r.
EndCalled(r) == \E k \in EndCalls : ends[k].req = r

\* The user handler of request r has thrown.
HandlerThrew(r) == layer[r][depth[r]].caught # NoVal

\* C13: a transaction started by withSentry whose response has its end
\* called, or whose handler throws, is eventually finished, with a flush
\* attempt made for its request.
C13_EventuallyFinalized ==
    \A r \in Reqs, l \in Layers :
        (txns[ApiTxn(r, l)].live /\ (EndCalled(r) \/ HandlerThrew(r)))
            ~> (txns[ApiTxn(r, l)].finished /\ flushAttempts[r] > 0)

\* The same for the transaction stored on the response.
C13_StoredEventuallyFinalized ==
    \A r \in Reqs, l \in Layers :
        (res[r].txn = ApiTxn(r, l) /\ (EndCalled(r) \/ HandlerThrew(r)))
            ~> (txns[ApiTxn(r, l)].finished /\ flushAttempts[r] > 0)

\* The activations of finishSentryProcessing started so far for request r:
\* one per catch block reached, and one per wrapped end that an end call has
\* gone through.
FinStarted(r) ==
    Cardinality({l \in Layers : layer[r][l].fin.pc # "idle"})
      + Cardinality({x \in EndCalls \X Layers :
                        /\ ends[x[1]].req = r
                        /\ ends[x[1]].level <= x[2]
                        /\ x[2] <= res[r].wraps})

\* C14 (as stated): without a transaction on the response no flush attempt
\* is made for the request.
C14_NoFlushWithoutTransaction ==
    \A r \in Reqs : res[r].txn = NoTxn => flushAttempts[r] = 0

\* C14 (amended): without a transaction on the response a finalization
\* applies no finish and does not wait for a later turn, but it does make
\* its flush attempt, which has settled before the original end is called
\* or the error is rethrown.
C14_FlushWithoutTransaction ==
    \A r \in Reqs :
        res[r].txn = NoTxn =>
            /\ \A l \in Layers : ~txns[ApiTxn(r, l)].finished
            /\ \A l \in Layers : layer[r][l].fin.pc \in {"idle", "flushing", "done"}
            /\ \A k \in EndCalls :
                 ends[k].req = r => ends[k].fin.pc \in {"flushing", "done"}
            /\ flushAttempts[r] = FinStarted(r)
            /\ \A k \in EndCalls :
                 (ends[k].req = r /\ ends[k].pc = "closed") => ends[k].fin.pc = "done"
            /\ \A l \in Layers :
                 layer[r][l].pc = "rethrown" => layer[r][l].fin.pc = "done"

\* With tracing off a response was closed after its handler had thrown: two
\* finalizations without a transaction, each with its flush attempt.
C14_Witness ==
    \E r \in Reqs, k \in EndCalls :
        /\ ~tracingEnabled
        /\ res[r].txn = NoTxn
        /\ layer[r][1].pc = "rethrown"
        /\ ends[k].req = r /\ ends[k].pc = "closed"
        /\ flushAttempts[r] >= 2

\* Some activation of finishSentryProcessing is requested in this step and
\* finds transaction t on the response.
FinRequestedFor(t) ==
    \/ \E r \in Reqs, l \in Layers :
          /\ layer[r][l].fin.pc = "idle"
          /\ layer'[r][l].fin.pc = "immediate"
          /\ layer'[r][l].fin.txn = t
    \/ \E k \in EndCalls :
          /\ ends'[k].fin.pc = "immediate"
          /\ ends'[k].fin.txn = t
          /\ ends[k].fin.pc # "immediate" \/ ends[k].level # ends'[k].level

\* Some activation of finishSentryProcessing that read transaction t goes
\* from its setImmediate callback to its flush in this step.
FinFlushBegins(t) ==
    \/ \E r \in Reqs, l \in Layers :
          /\ layer[r][l].fin.txn = t
          /\ layer[r][l].fin.pc = "immediate"
          /\ layer'[r][l].fin.pc = "flushing"
    \/ \E k \in EndCalls :
          /\ ends[k].fin.txn = t
          /\ ends[k].fin.pc = "immediate"
          /\ ends'[k].fin.pc = "flushing"

\* C15: the turn in which a finalization is requested records the response
\* status on the transaction and neither finishes the transaction nor starts
\* a flush; a transaction of the handler wrapper is finished only in the
\* later turn of a setImmediate callback, which is the turn that starts the
\* flush, so a flush of a finalization with a transaction begins only once
\* the transaction is finished; and no child span that the handler finishes
\* in the turn of the request is cut off by the finish.
C15_DeferredFinish ==
    [][\A r \in Reqs, l \in Layers :
          LET t == ApiTxn(r, l) IN
          /\ FinRequestedFor(t) =>
                /\ txns'[t].finished = txns[t].finished
                /\ txns'[t].status = res'[r].statusCode
                /\ flushAttempts'[r] = flushAttempts[r]
          /\ (txns'[t].finished /\ ~txns[t].finished) => FinFlushBegins(t)
          /\ FinFlushBegins(t) =>
                (txns'[t].finished /\ flushAttempts'[r] = flushAttempts[r] + 1)
          /\ ~txns'[t].cut]_vars

\* The handler finished a child span in the turn in which it called
\* res.end(), and the transaction was finished afterwards, by the
\* finalization that call requested.
C15_Witness ==
    \E r \in Reqs, k \in EndCalls :
        /\ ends[k].req = r
        /\ ends[k].fin.txn # NoTxn
        /\ ends[k].fin.pc = "flushing"
        /\ txns[ends[k].fin.txn].children = 1
        /\ txns[ends[k].fin.txn].finished
        /\ flushAttempts[r] = 1

\* The calls of flush made so far: finishSentryProcessing holds the only
\* call of flush in the file, and it counts its calls per request.
RECURSIVE FlushCallsUpTo(_)
FlushCallsUpTo(n) == IF n = 0 THEN 0 ELSE flushAttempts[n] + FlushCallsUpTo(n - 1)

\* C16: every finish of a transaction, in whichever phase, is followed by a
\* flush attempt of its own: there are at least as many flush attempts as
\* finished transactions.
C16_FinishFollowedByFlush ==
    Cardinality({t \in TxnIds : txns[t].finished}) <= FlushCallsUpTo(NumReqs)

\* C17: every child span a page wrapper opened under a transaction that is
\* finished is finished itself.
C17_SpansFinishedFirst ==
    \A sp \in SpanObjs :
        (spans[sp].live /\ txns[spans[sp].parent].finished) => spans[sp].finished

\* C18: a transaction that withSentry_app has run on, and so every
\* transaction it has finished, carries the route name of that render,
\* whatever name it was created with.
C18_RenamedToRoute ==
    \A p \in Pages :
        \A i \in DOMAIN pg[p].log :
            LET t == pg[p].log[i].active IN
            /\ txns[t].name = Route(p)
            /\ txns[t].finished => txns[t].name = Route(p)

\* A render has resumed and finished a transaction that wrappedGSP created
\* under the placeholder name, and another one has finished a transaction
\* it created itself.
C18_Witness ==
    \E p, q \in Pages :
        /\ pg[p].kind = "gsp"
        /\ Len(pg[p].log) > 0
        /\ ~pg[p].log[1].created
        /\ pg[p].log[1].active = pg[p].txn
        /\ txns[pg[p].txn].finished
        /\ Len(pg[q].log) > 0
        /\ pg[q].log[1].created
        /\ txns[pg[q].log[1].active].finished

\* C19: a lookup misses for the empty id, for an id that was never stashed,
\* for an id whose entry was deleted and while the stash does not exist; a
\* render whose lookup missed has worked on a transaction of its own, which
\* it created and stashed, and has run to its end (finish and delete) unless
\* the component threw; a render whose lookup hit was given the id of the
\* transaction it resumed.
C19_MissIsBenign ==
    /\ getTransactionById(EmptyId) = NoTxn
    /\ getTransactionById(ForeignId) = NoTxn
    /\ ~stashDefined => \A i \in Ids : getTransactionById(i) = NoTxn
    /\ \A p \in Pages :
         \A i \in DOMAIN pg[p].log :
            LET e == pg[p].log[i] IN
            /\ e.active \in TxnIds
            /\ e.created =>
                  /\ e.active # e.idIn
                  /\ txns[e.active].live
                  /\ txns[e.active].spanId = e.active
                  /\ \A j \in DOMAIN pg[p].log :
                        pg[p].log[j].active = e.active => j = i
                  /\ IF e.threw
                     THEN getTransactionById(e.active) = e.active
                     ELSE /\ txns[e.active].finished
                          /\ getTransactionById(e.active) = NoTxn
            /\ ~e.created => (e.idIn = e.active /\ e.idIn = pg[p].propsId)

\* The id a data-loading wrapper injected was given to two renders: the
\* first resumed and finished the transaction, the second missed, created
\* its own and finished it; a render of another page was given a foreign id.
C19_Witness ==
    \E p, q \in Pages :
        /\ pg[p].propsId # EmptyId
        /\ Len(pg[p].log) = 2
        /\ ~pg[p].log[1].created /\ ~pg[p].log[1].threw
        /\ pg[p].log[2].idIn = pg[p].propsId
        /\ pg[p].log[2].created /\ ~pg[p].log[2].threw
        /\ txns[pg[p].log[2].active].finished
        /\ Len(pg[q].log) > 0
        /\ pg[q].log[1].idIn = ForeignId
        /\ pg[q].log[1].created

\* This step is a step of a finalization of the response of request r that
\* works on transaction t.
OwnFinStep(r, t) ==
    \/ \E l \in Layers :
          /\ layer'[r][l].fin.txn = t
          /\ layer'[r][l].fin # layer[r][l].fin
    \/ \E k \in EndCalls :
          /\ ends'[k].req = r
          /\ ends'[k].fin.txn = t
          /\ ends'[k] # ends[k]

\* C20: the transaction stored on a response, and the transaction any
\* finalization of that response works on, was started for that response's
\* request; a transaction carries the error status only if its own response
\* does; and a step changes the status or the finished flag of a transaction
\* only if it is a step of a finalization of its own response, on which the
\* transaction is stored.
C20_FinalizationBoundToResponse ==
    /\ [](\A r \in Reqs :
            /\ res[r].txn # NoTxn => txns[res[r].txn].req = r
            /\ \A l \in Layers :
                  /\ layer[r][l].fin.txn # NoTxn => txns[layer[r][l].fin.txn].req = r
                  /\ txns[ApiTxn(r, l)].status = StatusError =>
                        res[r].statusCode = StatusError
            /\ \A k \in EndCalls :
                  (ends[k].req = r /\ ends[k].fin.txn # NoTxn) =>
                      txns[ends[k].fin.txn].req = r)
    /\ [][\A r \in Reqs, l \in Layers :
            LET t == ApiTxn(r, l) IN
            (\/ txns'[t].finished # txns[t].finished
             \/ txns'[t].status # txns[t].status) =>
                (OwnFinStep(r, t) /\ res[r].txn = t)]_vars

\* Two requests were finalized in interleaved steps: the handler of one
\* threw, the response of the other was closed; each transaction is
\* finished and carries the status of its own response.
C20_Witness ==
    \E a, b \in Reqs, k \in EndCalls :
        /\ a # b
        /\ layer[a][1].pc = "rethrown"
        /\ res[a].txn # NoTxn
        /\ txns[res[a].txn].finished /\ txns[res[a].txn].status = StatusError
        /\ ends[k].req = b /\ ends[k].pc = "closed"
        /\ res[b].txn # NoTxn
        /\ txns[res[b].txn].finished /\ txns[res[b].txn].status = 200
        /\ layer[b][1].pc = "awaiting"

====
